---- MODULE Spec2Model ----
(***************************************************************************)
(* The Result Aggregator of the VUnit regression scripts,                  *)
(* check_vunit_regress.py main(): it reads tests_to_run.txt, and for each  *)
(* listed test looks for <test>/vunit_out, the name-mapping file and the   *)
(* output.txt of every sub-test, counting passed / failures / missing and  *)
(* writing vunit_check.log.                                                *)
(*                                                                         *)
(* Text is modelled as Python sees it: a line is a sequence of characters  *)
(* (one-character strings, the names of a test or of a generated directory *)
(* being one glyph each), a path is a sequence of components, the log is   *)
(* the sequence of lh.write() calls, each with the text it wrote.  The      *)
(* file tree is an input: what lies under an out_dir is chosen the first   *)
(* time main() looks at that path and stays as it is from then on.         *)
(*                                                                         *)
(* Further specifications model the same script run again (SpecTwice),     *)
(* runall.py with its setup() and execute() (SpecRunall), one run of       *)
(* runall.py followed by the check (SpecSetupCheck), and the args file of  *)
(* MetricsInterface.compile_verilog_file_command (SpecCompile).            *)
(***************************************************************************)
EXTENDS Integers, Sequences, FiniteSets, TLC

VARIABLES
    pc,        \* where main() is: "idle" (not started), "start", "list", "tests", "maplines", "done", "aborted", "crashed"
    verbose,   \* the global set by process_args (-V)
    lhOpen,    \* whether the handle lh of vunit_check.log is open
    log,       \* the lh.write() calls made so far: [stmt, data]
    rlst,      \* the lines of tests_to_run.txt
    i,         \* position of the loop `for test in rlst` (1-based)
    out_dir,   \* the out_dir of the test whose mapping lines are being read
    mlst,      \* the lines of the mapping file being read
    j,         \* position of the loop `for m in mlst` (1-based)
    passed,
    failures,
    missing,
    exitCode,  \* the status the process ends with, once pc is "done", "aborted" or "crashed"
    fs,        \* the file tree seen so far: out_dir path -> what lies under it
    opened,    \* the files open() has returned so far, in order: [path, txt]
    listFile,  \* tests_to_run.txt on disk: [known, exists, lines]
    runs,      \* how many times check_vunit_regress.py has been started
    prev,      \* what the run before this one ended with: <<>> or [summary, exit, log]
    rpc,       \* where runall.py is: "off", "setup", "remove", "execute", "exited", "finished"
    removed,   \* the paths of the `Removing previous:` messages of setup(), in order
    markers,   \* what glob('**/run.py') finds under the tree, in order
    foundFile, \* test_found_list.txt on disk: [exists, lines]
    setupList, \* the rlst of setup(): the lines it read from tests_to_run.txt
    pos,       \* position of the loop of runall.py that is running (1-based)
    scanned,   \* whether this invocation of setup() has run the glob
    class_tlst,\* the commandRemoteVUNIT objects setup() has made: [testName, index]
    dispatched,\* the tests execute() has dispatched, over all invocations
    runLog,    \* tests_run.log: the writes of the current invocation
    status,    \* each invocation of runall.py that has ended: [exit, scanned]
    in_cloud,  \* self._in_cloud of the MetricsInterface
    argsFiles, \* the args files metrics.py has written: path -> content
    returned,  \* the commands compile_verilog_file_command has returned and that
               \* are not executed yet, in order: [asked, cmd]
    compiled   \* the commands executed, in order: [asked, args]

aggVars == <<pc, verbose, lhOpen, log, rlst, i, out_dir, mlst, j,
             passed, failures, missing, exitCode, fs, opened>>
rerunVars == <<runs, prev>>
runallVars == <<rpc, removed, markers, foundFile, setupList, pos, scanned, class_tlst,
                dispatched, runLog, status>>
metricsVars == <<in_cloud, argsFiles, returned, compiled>>

vars == <<aggVars, listFile, rerunVars, runallVars, metricsVars>>

----------------------------------------------------------------------------
(* Bounds of the model *)

MaxTests == 2      \* lines in tests_to_run.txt
MaxMapLines == 2   \* lines in a name-mapping file
MaxRuns == 2       \* runs of check_vunit_regress.py in succession
MaxRerunTests == 1 \* lines in the tests_to_run.txt of the runs in succession

----------------------------------------------------------------------------
(* Strings of main() *)

MapFile == <<"test_name_to_path_mapping.txt">>
OutPath == <<"test_output">>
OFile == <<"output.txt">>
PassMSG == "=N:[VhdlStop]"
Separator == "***************************************************************************"

Whitespace == {" ", "\n"}

SeqsUpTo(S, n) == UNION {[1..k -> S] : k \in 0..n}

----------------------------------------------------------------------------
(* Python string and path functions used by main() *)

RECURSIVE LStrip(_)
LStrip(s) ==
    IF s = <<>> THEN s
    ELSE IF Head(s) \in Whitespace THEN LStrip(Tail(s)) ELSE s

RECURSIVE RStrip(_)
RStrip(s) ==
    IF s = <<>> THEN s
    ELSE IF s[Len(s)] \in Whitespace THEN RStrip(SubSeq(s, 1, Len(s) - 1)) ELSE s

\* str.strip()
Strip(s) == RStrip(LStrip(s))

RECURSIVE SplitFrom(_, _, _)
SplitFrom(s, cur, acc) ==
    IF s = <<>> THEN (IF cur = <<>> THEN acc ELSE Append(acc, cur))
    ELSE IF Head(s) \in Whitespace
         THEN SplitFrom(Tail(s), <<>>, IF cur = <<>> THEN acc ELSE Append(acc, cur))
         ELSE SplitFrom(Tail(s), Append(cur, Head(s)), acc)

\* str.split(): the whitespace-separated tokens, none for a blank line
Split(s) == SplitFrom(s, <<>>, <<>>)

\* os.path.join of relative components: an empty component adds nothing
Join(parts) == SelectSeq(parts, LAMBDA c : c # <<>>)

RECURSIVE PathText(_)
\* a path as the text written to the log
PathText(p) ==
    IF p = <<>> THEN <<>>
    ELSE IF Len(p) = 1 THEN p[1]
    ELSE p[1] \o <<"/">> \o PathText(Tail(p))

\* the marker looked for at the start of the text only
HasPassMSG_AtStart(txt) == txt # <<>> /\ txt[1] = PassMSG

\* `PassMSG in txt`
HasPassMSG(txt) == \E k \in 1..Len(txt) : txt[k] = PassMSG

\* the whole line compared with "#"
IsComment_WholeLine(line) == Strip(line) = <<"#">>

\* `test[0] == "#"` (a line returned by readlines() is never empty)
IsComment(line) == line[1] = "#"

----------------------------------------------------------------------------
(* The inputs: the test list and the tree under each out_dir *)

TestLineSet == { <<"a", "\n">>, <<"b", "\n">>, <<"#", "a", "\n">>, <<" ", " ", "\n">> }
TestLists == SeqsUpTo(TestLineSet, MaxTests)

\* tests_to_run.txt is an input too: what it holds is chosen the first time
\* a program looks at it, and changes only when a program writes it
NoListFile == [known |-> TRUE, exists |-> FALSE, lines |-> <<>>]
ListFileOf(lines) == [known |-> TRUE, exists |-> TRUE, lines |-> lines]
ListFileAt == IF listFile.known THEN {listFile}
              ELSE {NoListFile} \cup {ListFileOf(lines) : lines \in TestLists}

MapLineSet == { <<"g", " ", "s", "\n">>, <<" ", " ", " ", " ", "\n">> }
MapFiles == SeqsUpTo(MapLineSet, MaxMapLines)

PassTxt == <<"sim", " ", PassMSG, "\n">>
FailTxt == <<"Error", "\n", "None", "\n">>
\* a result file: unreadable (absent, or open() fails), or its text
ResultSet == { [readable |-> FALSE, txt |-> <<>>],
               [readable |-> TRUE, txt |-> PassTxt],
               [readable |-> TRUE, txt |-> FailTxt] }

\* the generated names a mapping file gives
GenNames(lines) == { Split(lines[k])[1] : k \in {n \in 1..Len(lines) : Split(lines[n]) # <<>>} }

NoDir == [dir |-> FALSE, map |-> "absent", lines |-> <<>>, res |-> <<>>]
\* what can lie at an out_dir path: nothing; a directory without the mapping
\* file; one whose mapping file cannot be opened; one with a mapping file and
\* a result file (or none) for each name it gives
DirTrees ==
    { NoDir,
      [dir |-> TRUE, map |-> "absent", lines |-> <<>>, res |-> <<>>],
      [dir |-> TRUE, map |-> "unreadable", lines |-> <<>>, res |-> <<>>] }
    \cup UNION { { [dir |-> TRUE, map |-> "ok", lines |-> ls, res |-> r] :
                     r \in [GenNames(ls) -> ResultSet] } : ls \in MapFiles }

\* the tree at path p: as seen before, or seen now for the first time
TreeAt(p) == IF p \in DOMAIN fs THEN {fs[p]} ELSE DirTrees
Seen(p, tree) == IF p \in DOMAIN fs THEN fs ELSE (p :> tree) @@ fs

----------------------------------------------------------------------------
(* The log *)

W(stmt, data) == [stmt |-> stmt, data |-> data]

\* lines 186-187 without line 188
OutDirErrorBlock_NoSeparator(dir) ==
    << W(186, <<">>>>  ERROR: Expected output directory was not found", "\n", "    ">>
              \o PathText(dir)),
       W(187, <<"\n">>) >>

\* lines 186-188
OutDirErrorBlock(dir) ==
    << W(186, <<">>>>  ERROR: Expected output directory was not found", "\n", "    ">>
              \o PathText(dir)),
       W(187, <<"\n">>),
       W(188, <<Separator, "\n">>) >>

\* lines 203-205
MapFileErrorBlock(mfile) ==
    << W(203, <<">>>>  ERROR: Expected output file was not found", "\n", "    ">>
              \o PathText(mfile)),
       W(204, <<"\n">>),
       W(205, <<Separator, "\n">>) >>

\* lines 229-231
ResultErrorBlock(dtn) ==
    << W(229, <<">>>>  ERROR: Expected test results file was not found", "\n", "    ">>
              \o PathText(dtn)),
       W(230, <<"\n">>),
       W(231, <<Separator, "\n">>) >>

\* lines 219-223
FailedBlock(m, txt, v) ==
    << W(219, <<">>>>  Test Failed: ">> \o m \o <<"\n">>) >>
    \o (IF v THEN << W(221, txt), W(222, <<"\n">>), W(223, <<Separator, "\n">>) >>
             ELSE <<>>)

\* line 235 looking at the failures only
NoneNeeded_FailuresOnly(f, m) == f <= 0

\* line 235
NoneNeeded(f, m) == f + m <= 0

\* line 240 returning the failures only, or the missing only
ExitStatus_FailuresOnly(f, m) == f
ExitStatus_MissingOnly(f, m) == m

\* line 240
ExitStatus(f, m) == f + m

----------------------------------------------------------------------------
(* main() *)

\* runall.py is not running
NoRunall ==
    /\ rpc = "off"
    /\ removed = <<>>
    /\ markers = <<>>
    /\ foundFile = [exists |-> FALSE, lines |-> <<>>]
    /\ setupList = <<>>
    /\ pos = 1
    /\ scanned = FALSE
    /\ class_tlst = <<>>
    /\ dispatched = <<>>
    /\ runLog = <<>>
    /\ status = <<>>

\* no MetricsInterface has been asked for a command
NoMetrics ==
    /\ in_cloud = FALSE
    /\ argsFiles = <<>>
    /\ returned = <<>>
    /\ compiled = <<>>

Init ==
    /\ pc = "start"
    /\ verbose \in BOOLEAN
    /\ lhOpen = FALSE
    /\ log = <<>>
    /\ rlst = <<>>
    /\ i = 1
    /\ out_dir = <<>>
    /\ mlst = <<>>
    /\ j = 1
    /\ passed = 0
    /\ failures = 0
    /\ missing = 0
    /\ exitCode = 0
    /\ fs = <<>>
    /\ opened = <<>>
    /\ listFile = [known |-> FALSE, exists |-> FALSE, lines |-> <<>>]
    /\ runs = 1
    /\ prev = <<>>
    /\ NoRunall
    /\ NoMetrics

\* lines 156-161 with the log opened in mode "a"
OpenLog_Append ==
    /\ UNCHANGED <<listFile, rerunVars, runallVars, metricsVars>>
    /\ pc = "start"
    /\ \E ok \in BOOLEAN :
         IF ok
         THEN /\ lhOpen' = TRUE
              /\ log' = log
              /\ pc' = "list"
              /\ UNCHANGED exitCode
         ELSE /\ pc' = "aborted"
              /\ exitCode' = -1
              /\ UNCHANGED <<lhOpen, log>>
    /\ UNCHANGED <<verbose, rlst, i, out_dir, mlst, j, passed, failures, missing, fs, opened>>

\* lines 156-161: open("vunit_check.log", "w"), or do_exit(-1)
OpenLog ==
    /\ UNCHANGED <<listFile, rerunVars, runallVars, metricsVars>>
    /\ pc = "start"
    /\ \E ok \in BOOLEAN :
         IF ok
         THEN /\ lhOpen' = TRUE
              /\ log' = <<>>
              /\ pc' = "list"
              /\ UNCHANGED exitCode
         ELSE /\ pc' = "aborted"
              /\ exitCode' = -1
              /\ UNCHANGED <<lhOpen, log>>
    /\ UNCHANGED <<verbose, rlst, i, out_dir, mlst, j, passed, failures, missing, fs, opened>>

RECURSIVE WithoutRepeats(_)
\* the lines of a list with every repeated line dropped
WithoutRepeats(lines) ==
    IF lines = <<>> THEN <<>>
    ELSE LET front == WithoutRepeats(SubSeq(lines, 1, Len(lines) - 1))
             last == lines[Len(lines)]
         IN IF \E k \in 1..Len(front) : front[k] = last THEN front
            ELSE Append(front, last)

\* lines 163-176 reading each test of the list once
ReadList_NoRepeats ==
    /\ pc = "list"
    /\ \E file \in ListFileAt :
         /\ listFile' = file
         /\ IF file.exists
            THEN /\ rlst' = WithoutRepeats(file.lines)
                 /\ i' = 1
                 /\ passed' = 0
                 /\ failures' = 0
                 /\ missing' = 0
                 /\ pc' = "tests"
                 /\ UNCHANGED exitCode
            ELSE /\ pc' = "aborted"
                 /\ exitCode' = -1
                 /\ UNCHANGED <<rlst, i, passed, failures, missing>>
    /\ UNCHANGED <<verbose, lhOpen, log, out_dir, mlst, j, fs, opened>>
    /\ UNCHANGED <<rerunVars, runallVars, metricsVars>>

\* lines 163-176: read tests_to_run.txt, or do_exit(-1)
ReadList ==
    /\ pc = "list"
    /\ \E file \in ListFileAt :
         /\ listFile' = file
         /\ IF file.exists
            THEN /\ rlst' = file.lines
                 /\ i' = 1
                 /\ passed' = 0
                 /\ failures' = 0
                 /\ missing' = 0
                 /\ pc' = "tests"
                 /\ UNCHANGED exitCode
            ELSE /\ pc' = "aborted"
                 /\ exitCode' = -1
                 /\ UNCHANGED <<rlst, i, passed, failures, missing>>
    /\ UNCHANGED <<verbose, lhOpen, log, out_dir, mlst, j, fs, opened>>
    /\ UNCHANGED <<rerunVars, runallVars, metricsVars>>

InTests == pc = "tests" /\ i <= Len(rlst)

\* lines 178-179
SkipComment ==
    /\ UNCHANGED <<listFile, rerunVars, runallVars, metricsVars>>
    /\ InTests
    /\ IsComment(rlst[i])
    /\ i' = i + 1
    /\ UNCHANGED <<pc, verbose, lhOpen, log, rlst, out_dir, mlst, j,
                   passed, failures, missing, exitCode, fs, opened>>

\* line 183
OutDirOf(line) == Join(<< <<".">>, Strip(line), <<"vunit_out">> >>)
\* line 193
MFileOf(dir) == Join(dir \o <<OutPath, MapFile>>)
\* line 213
DtnOf(dir, sm) == Join(dir \o <<OutPath, sm[1], OFile>>)

\* lines 184-190: the output directory is not there
MissingOutDir ==
    /\ UNCHANGED <<listFile, rerunVars, runallVars, metricsVars>>
    /\ InTests
    /\ ~IsComment(rlst[i])
    /\ LET dir == OutDirOf(rlst[i]) IN
       \E tree \in TreeAt(dir) :
         /\ ~tree.dir
         /\ fs' = Seen(dir, tree)
         /\ missing' = missing + 1
         /\ log' = log \o OutDirErrorBlock(dir)
    /\ i' = i + 1
    /\ UNCHANGED <<pc, verbose, lhOpen, rlst, out_dir, mlst, j,
                   passed, failures, exitCode, opened>>

\* lines 193-197 counting the test as missing
NoMapFile_CountsMissing ==
    /\ UNCHANGED <<listFile, rerunVars, runallVars, metricsVars>>
    /\ InTests
    /\ ~IsComment(rlst[i])
    /\ LET dir == OutDirOf(rlst[i]) IN
       \E tree \in TreeAt(dir) :
         /\ tree.dir
         /\ tree.map = "absent"
         /\ fs' = Seen(dir, tree)
    /\ missing' = missing + 1
    /\ i' = i + 1
    /\ UNCHANGED <<pc, verbose, lhOpen, log, rlst, out_dir, mlst, j,
                   passed, failures, exitCode, opened>>

\* lines 193-197: no mapping file
NoMapFile ==
    /\ UNCHANGED <<listFile, rerunVars, runallVars, metricsVars>>
    /\ InTests
    /\ ~IsComment(rlst[i])
    /\ LET dir == OutDirOf(rlst[i]) IN
       \E tree \in TreeAt(dir) :
         /\ tree.dir
         /\ tree.map = "absent"
         /\ fs' = Seen(dir, tree)
    /\ i' = i + 1
    /\ UNCHANGED <<pc, verbose, lhOpen, log, rlst, out_dir, mlst, j,
                   passed, failures, missing, exitCode, opened>>

\* lines 200-207: the mapping file is there and open() fails
MapOpenFails ==
    /\ UNCHANGED <<listFile, rerunVars, runallVars, metricsVars>>
    /\ InTests
    /\ ~IsComment(rlst[i])
    /\ LET dir == OutDirOf(rlst[i]) IN
       \E tree \in TreeAt(dir) :
         /\ tree.dir
         /\ tree.map = "unreadable"
         /\ fs' = Seen(dir, tree)
         /\ log' = log \o MapFileErrorBlock(MFileOf(dir))
    /\ i' = i + 1
    /\ UNCHANGED <<pc, verbose, lhOpen, rlst, out_dir, mlst, j,
                   passed, failures, missing, exitCode, opened>>

\* lines 200-210: mlst = mf.readlines(); the loop over mlst starts, or is
\* over at once when the file is empty
ReadMapFile ==
    /\ UNCHANGED <<listFile, rerunVars, runallVars, metricsVars>>
    /\ InTests
    /\ ~IsComment(rlst[i])
    /\ LET dir == OutDirOf(rlst[i]) IN
       \E tree \in TreeAt(dir) :
         /\ tree.dir
         /\ tree.map = "ok"
         /\ fs' = Seen(dir, tree)
         /\ opened' = Append(opened, [path |-> MFileOf(dir), txt |-> tree.lines])
         /\ out_dir' = dir
         /\ mlst' = tree.lines
         /\ j' = 1
         /\ IF tree.lines = <<>>
            THEN pc' = "tests" /\ i' = i + 1
            ELSE pc' = "maplines" /\ i' = i
    /\ UNCHANGED <<verbose, lhOpen, log, rlst, passed, failures, missing, exitCode>>

InMapLines == pc = "maplines" /\ j <= Len(mlst)

\* the loop over mlst moves on; after the last line, so does the loop over rlst
NextMapLine ==
    /\ UNCHANGED <<listFile, rerunVars, runallVars, metricsVars>>
    /\ j' = j + 1
    /\ IF j = Len(mlst)
       THEN pc' = "tests" /\ i' = i + 1
       ELSE pc' = "maplines" /\ i' = i

\* lines 211-213: sm = m.split() is empty and sm[0] raises IndexError, which
\* nothing catches: the interpreter prints the traceback and exits with 1
EmptyMapLine ==
    /\ UNCHANGED <<listFile, rerunVars, runallVars, metricsVars>>
    /\ InMapLines
    /\ Split(mlst[j]) = <<>>
    /\ pc' = "crashed"
    /\ exitCode' = 1
    /\ UNCHANGED <<verbose, lhOpen, log, rlst, i, out_dir, mlst, j,
                   passed, failures, missing, fs, opened>>

\* the result file named by the mapping line at j
ResultAt == fs[out_dir].res[Split(mlst[j])[1]]

\* lines 215-217, 226-227: the text holds the marker
ResultPassed ==
    /\ UNCHANGED <<listFile, rerunVars, runallVars, metricsVars>>
    /\ InMapLines
    /\ Split(mlst[j]) # <<>>
    /\ ResultAt.readable
    /\ HasPassMSG(ResultAt.txt)
    /\ opened' = Append(opened, [path |-> DtnOf(out_dir, Split(mlst[j])), txt |-> ResultAt.txt])
    /\ passed' = passed + 1
    /\ NextMapLine
    /\ UNCHANGED <<verbose, lhOpen, log, rlst, out_dir, mlst,
                   failures, missing, exitCode, fs>>

\* lines 215-225 with line 225 inside `if verbose:`
ResultFailed_CountsWhenVerbose ==
    /\ UNCHANGED <<listFile, rerunVars, runallVars, metricsVars>>
    /\ InMapLines
    /\ Split(mlst[j]) # <<>>
    /\ ResultAt.readable
    /\ ~HasPassMSG(ResultAt.txt)
    /\ opened' = Append(opened, [path |-> DtnOf(out_dir, Split(mlst[j])), txt |-> ResultAt.txt])
    /\ log' = log \o FailedBlock(mlst[j], ResultAt.txt, verbose)
    /\ failures' = IF verbose THEN failures + 1 ELSE failures
    /\ NextMapLine
    /\ UNCHANGED <<verbose, lhOpen, rlst, out_dir, mlst,
                   passed, missing, exitCode, fs>>

\* lines 215-225: the text does not hold the marker
ResultFailed ==
    /\ UNCHANGED <<listFile, rerunVars, runallVars, metricsVars>>
    /\ InMapLines
    /\ Split(mlst[j]) # <<>>
    /\ ResultAt.readable
    /\ ~HasPassMSG(ResultAt.txt)
    /\ opened' = Append(opened, [path |-> DtnOf(out_dir, Split(mlst[j])), txt |-> ResultAt.txt])
    /\ log' = log \o FailedBlock(mlst[j], ResultAt.txt, verbose)
    /\ failures' = failures + 1
    /\ NextMapLine
    /\ UNCHANGED <<verbose, lhOpen, rlst, out_dir, mlst,
                   passed, missing, exitCode, fs>>

\* lines 228-233: open() or read() raised
ResultUnreadable ==
    /\ UNCHANGED <<listFile, rerunVars, runallVars, metricsVars>>
    /\ InMapLines
    /\ Split(mlst[j]) # <<>>
    /\ ~ResultAt.readable
    /\ log' = log \o ResultErrorBlock(DtnOf(out_dir, Split(mlst[j])))
    /\ NextMapLine
    /\ UNCHANGED <<verbose, lhOpen, rlst, out_dir, mlst,
                   passed, failures, missing, exitCode, fs, opened>>

\* lines 235-244: the list is exhausted
Finish ==
    /\ UNCHANGED <<listFile, rerunVars, runallVars, metricsVars>>
    /\ pc = "tests"
    /\ i > Len(rlst)
    /\ log' = IF NoneNeeded(failures, missing)
              THEN Append(log, W(236, <<"None", "\n">>))
              ELSE log
    /\ lhOpen' = FALSE
    /\ exitCode' = ExitStatus(failures, missing)
    /\ pc' = "done"
    /\ UNCHANGED <<verbose, rlst, i, out_dir, mlst, j,
                   passed, failures, missing, fs, opened>>

Next ==
    \/ OpenLog
    \/ ReadList
    \/ SkipComment
    \/ MissingOutDir
    \/ NoMapFile
    \/ MapOpenFails
    \/ ReadMapFile
    \/ EmptyMapLine
    \/ ResultPassed
    \/ ResultFailed
    \/ ResultUnreadable
    \/ Finish

Spec == Init /\ [][Next]_vars

----------------------------------------------------------------------------
(* What the claims speak of *)

RECURSIVE Flatten(_)
\* the text of the log: what the write() calls wrote, in order
Flatten(l) == IF l = <<>> THEN <<>> ELSE Head(l).data \o Flatten(Tail(l))

RECURSIVE LinesFrom(_, _, _)
LinesFrom(s, cur, acc) ==
    IF s = <<>> THEN (IF cur = <<>> THEN acc ELSE Append(acc, cur))
    ELSE IF Head(s) = "\n" THEN LinesFrom(Tail(s), <<>>, Append(acc, cur))
    ELSE LinesFrom(Tail(s), Append(cur, Head(s)), acc)

\* the lines of vunit_check.log
LogLines == LinesFrom(Flatten(log), <<>>, <<>>)

\* the text holds the marker
Marked(txt) == \E k \in 1..Len(txt) : txt[k] = PassMSG

\* the listed tests: the lines of the list that do not start with "#"
ListedTests == {k \in 1..Len(rlst) : rlst[k][1] # "#"}
TreeOf(k) == fs[OutDirOf(rlst[k])]

\* the listed tests whose output directory is absent
MissingCount == Cardinality({k \in ListedTests : ~TreeOf(k).dir})

\* the result files read that do not hold the marker
UnmarkedReads ==
    Cardinality({k \in 1..Len(opened) :
                    /\ opened[k].path[Len(opened[k].path)] = OFile
                    /\ ~Marked(opened[k].txt)})

\* the mapping lines of listed test k that name a result file
SubTests(k) ==
    IF TreeOf(k).dir /\ TreeOf(k).map = "ok"
    THEN {n \in 1..Len(TreeOf(k).lines) : Split(TreeOf(k).lines[n]) # <<>>}
    ELSE {}
ResultOf(k, n) == TreeOf(k).res[Split(TreeOf(k).lines[n])[1]]

Counters == <<passed, failures, missing>>

----------------------------------------------------------------------------
(* C1: when main() runs to completion, the status it reports is            *)
(* failed + missing: the number of result files read without the marker    *)
(* plus the number of listed tests whose vunit_out directory is absent.    *)
C1_ExitIsFailedPlusMissing ==
    pc = "done" =>
        /\ exitCode = UnmarkedReads + MissingCount
        /\ failures = UnmarkedReads
        /\ missing = MissingCount

C1_Witness == pc = "done" /\ failures >= 1 /\ missing >= 1 /\ exitCode >= 2

\* every listed test has its directory, its mapping file and all its results, marked
AllPresentAndPassing ==
    \A k \in ListedTests :
        /\ TreeOf(k).dir
        /\ TreeOf(k).map = "ok"
        /\ \A n \in SubTests(k) : ResultOf(k, n).readable /\ Marked(ResultOf(k, n).txt)

(* C2 as stated: the exit code is 0 iff every listed test had its output   *)
(* directory, its mapping file and every result file named in the mapping  *)
(* present and holding the marker.                                         *)
C2_Original == pc = "done" => (exitCode = 0 <=> AllPresentAndPassing)

\* no listed test lacks its directory and no result that was readable lacks the marker
NoneMissingNoneUnmarked ==
    \A k \in ListedTests :
        /\ TreeOf(k).dir
        /\ \A n \in SubTests(k) : ResultOf(k, n).readable => Marked(ResultOf(k, n).txt)

(* C2 as amended: a completed run exits with 0 iff every listed test had   *)
(* its output directory and every result file that could be read holds the *)
(* marker (an absent mapping file or result file leaves the code at 0); a  *)
(* run ended by a mapping line without tokens exits non-zero.              *)
C2_ExitZero ==
    /\ pc = "done" => (exitCode = 0 <=> NoneMissingNoneUnmarked)
    /\ pc = "crashed" => exitCode # 0

C2_Witness ==
    /\ pc = "done"
    /\ exitCode = 0
    /\ \E k \in ListedTests : TreeOf(k).dir /\ TreeOf(k).map = "absent"
    /\ \E k \in ListedTests : \E n \in SubTests(k) : ~ResultOf(k, n).readable

\* the mapping lines of the listed tests up to k whose result file is readable
RECURSIVE ReadableUpTo(_)
ReadableUpTo(k) ==
    IF k = 0 THEN 0
    ELSE ReadableUpTo(k - 1)
         + (IF k \in ListedTests
            THEN Cardinality({n \in SubTests(k) : ResultOf(k, n).readable})
            ELSE 0)

(* C3: at the end of any run, passed + failed is the number of non-empty   *)
(* mapping lines, over the tests processed, whose result file could be     *)
(* opened and read.                                                        *)
C3_PassedPlusFailed ==
    pc \in {"done", "crashed"} =>
        passed + failures = ReadableUpTo(IF i > Len(rlst) THEN Len(rlst) ELSE i)

\* main() is at a mapping line whose result file is readable
ReadableSubTest ==
    /\ pc = "maplines"
    /\ j <= Len(mlst)
    /\ Split(mlst[j]) # <<>>
    /\ fs[out_dir].res[Split(mlst[j])[1]].readable

(* C4: for a sub-test whose result file is readable exactly one counter    *)
(* goes up: passed, with nothing written to the log, when the text holds   *)
(* the marker; otherwise failed, and the log gets a `Test Failed:` entry   *)
(* that carries the whole mapping line.                                    *)
C4_OneCounterPerSubTest ==
    [][ReadableSubTest =>
          IF Marked(fs[out_dir].res[Split(mlst[j])[1]].txt)
          THEN /\ Counters' = <<passed + 1, failures, missing>>
               /\ log' = log
          ELSE /\ Counters' = <<passed, failures + 1, missing>>
               /\ Len(log') > Len(log)
               /\ SubSeq(log', 1, Len(log)) = log
               /\ log'[Len(log) + 1].data = <<">>>>  Test Failed: ">> \o mlst[j] \o <<"\n">>
      ]_vars

C4_Witness ==
    /\ passed >= 1
    /\ failures >= 1
    /\ \E k \in 1..Len(log) : log[k].stmt = 219

\* main() is at a listed test whose output directory is absent
OutDirAbsent ==
    /\ pc = "tests"
    /\ i <= Len(rlst)
    /\ rlst[i][1] # "#"
    /\ OutDirOf(rlst[i]) \in DOMAIN fs'
    /\ ~fs'[OutDirOf(rlst[i])].dir

(* C5: when the output directory of a listed test is absent, missing goes  *)
(* up by one, passed and failed stay, the log gets an `ERROR: Expected     *)
(* output directory` block ended by the separator line, no file is opened  *)
(* and the loop goes on with the next listed test.                         *)
C5_MissingOutDir ==
    [][OutDirAbsent =>
          /\ Counters' = <<passed, failures, missing + 1>>
          /\ Len(log') > Len(log)
          /\ SubSeq(log', 1, Len(log)) = log
          /\ LET block == LinesFrom(Flatten(SubSeq(log', Len(log) + 1, Len(log'))), <<>>, <<>>)
             IN /\ block[1] = <<">>>>  ERROR: Expected output directory was not found">>
                /\ block[Len(block)] = <<Separator>>
          /\ opened' = opened
          /\ pc' = "tests"
          /\ i' = i + 1
      ]_vars

C5_Witness ==
    /\ pc = "done"
    /\ missing >= 1
    /\ passed >= 1
    /\ \E k \in ListedTests : k < Len(rlst) /\ ~TreeOf(k).dir

\* main() is at a listed test with its output directory and no mapping file
MapFileAbsent ==
    /\ pc = "tests"
    /\ i <= Len(rlst)
    /\ rlst[i][1] # "#"
    /\ OutDirOf(rlst[i]) \in DOMAIN fs'
    /\ fs'[OutDirOf(rlst[i])].dir
    /\ fs'[OutDirOf(rlst[i])].map = "absent"

(* C6: when the output directory is there and the mapping file is not,     *)
(* passed, failed and missing stay and the loop goes on with the next      *)
(* listed test.                                                            *)
C6_NoMapFile ==
    [][MapFileAbsent =>
          /\ Counters' = Counters
          /\ pc' = "tests"
          /\ i' = i + 1
      ]_vars

C6_Witness ==
    /\ pc = "tests"
    /\ i = 2
    /\ 1 \in ListedTests
    /\ TreeOf(1).dir
    /\ TreeOf(1).map = "absent"
    /\ Counters = <<0, 0, 0>>

(* C7: once the log is open and the list read, the run goes through the    *)
(* whole list, closes the log and returns: nothing about a test or a       *)
(* sub-test ends it early.                                                 *)
C7_RunsToTheEnd ==
    pc \in {"done", "crashed"} =>
        /\ pc = "done"
        /\ i > Len(rlst)
        /\ ~lhOpen

\* where the log has the line `None`
NoneLine == <<"None">>
NoneAt == {k \in 1..Len(LogLines) : LogLines[k] = NoneLine}

(* C8 as stated: at the end of a completed run the log holds the line      *)
(* `None` iff failed + missing = 0; when it is there it is there once and  *)
(* is the last line.                                                       *)
C8_Original ==
    pc = "done" =>
        /\ NoneAt # {} <=> failures + missing = 0
        /\ NoneAt # {} => (Cardinality(NoneAt) = 1 /\ Len(LogLines) \in NoneAt)

\* the writes of line 236
NoneWrites == {k \in 1..Len(log) : log[k].stmt = 236}

(* C8 as amended: at the end of a completed run the last line of the log   *)
(* is `None` iff failed + missing = 0, and main() writes that line at most *)
(* once, as its last write (in verbose mode the echoed text of a failing   *)
(* sub-test may hold a line `None` of its own).                            *)
C8_NoneIsLastLine ==
    pc = "done" =>
        /\ Len(LogLines) \in NoneAt <=> failures + missing = 0
        /\ NoneWrites # {} <=> failures + missing = 0
        /\ NoneWrites \subseteq {Len(log)}

C8_Witness ==
    /\ pc = "done"
    /\ passed >= 1
    /\ failures + missing = 0
    /\ LogLines = <<NoneLine>>

\* the quiet run: main() over the same list and tree, written without verbose
EchoStmts == {221, 222, 223}

RECURSIVE QuietLines(_, _, _, _)
\* the mapping lines from n on, read without looking at verbose
QuietLines(dir, tree, n, acc) ==
    IF n > Len(tree.lines) \/ acc.crashed THEN acc
    ELSE LET m == tree.lines[n]
             sm == Split(m)
         IN IF sm = <<>> THEN [acc EXCEPT !.crashed = TRUE]
            ELSE QuietLines(dir, tree, n + 1,
                   IF ~tree.res[sm[1]].readable
                   THEN [acc EXCEPT !.log = @ \o ResultErrorBlock(DtnOf(dir, sm))]
                   ELSE IF Marked(tree.res[sm[1]].txt)
                   THEN [acc EXCEPT !.passed = @ + 1]
                   ELSE [acc EXCEPT !.failures = @ + 1,
                                    !.log = Append(@, W(219, <<">>>>  Test Failed: ">> \o m \o <<"\n">>))])

RECURSIVE QuietTests(_, _)
\* the listed tests from k on, read without looking at verbose
QuietTests(k, acc) ==
    IF k > Len(rlst) \/ acc.crashed THEN acc
    ELSE IF rlst[k][1] = "#" THEN QuietTests(k + 1, acc)
    ELSE LET dir == OutDirOf(rlst[k])
             tree == fs[dir]
         IN QuietTests(k + 1,
              IF ~tree.dir
              THEN [acc EXCEPT !.missing = @ + 1, !.log = @ \o OutDirErrorBlock(dir)]
              ELSE IF tree.map = "absent" THEN acc
              ELSE IF tree.map = "unreadable"
              THEN [acc EXCEPT !.log = @ \o MapFileErrorBlock(MFileOf(dir))]
              ELSE QuietLines(dir, tree, 1, acc))

QuietRun ==
    LET acc == QuietTests(1, [passed |-> 0, failures |-> 0, missing |-> 0,
                              log |-> <<>>, crashed |-> FALSE])
    IN IF acc.crashed THEN acc @@ [exit |-> 1]
       ELSE [acc EXCEPT !.log = IF acc.failures + acc.missing = 0
                                THEN Append(@, W(236, <<"None", "\n">>)) ELSE @]
            @@ [exit |-> acc.failures + acc.missing]

(* C9: verbose never changes the classification: passed, failed, missing   *)
(* and the exit code are those of the quiet run of the same list over the  *)
(* same tree, and the log is the quiet log with, in verbose mode only, the *)
(* text of each failing sub-test echoed after its `Test Failed:` entry.    *)
C9_VerboseOnlyEchoes ==
    pc \in {"done", "crashed"} =>
        /\ Counters = <<QuietRun.passed, QuietRun.failures, QuietRun.missing>>
        /\ exitCode = QuietRun.exit
        /\ SelectSeq(log, LAMBDA w : w.stmt \notin EchoStmts) = QuietRun.log
        /\ ~verbose => log = QuietRun.log
        /\ \A k \in 1..Len(log) :
             log[k].stmt = 221 =>
                /\ k > 1
                /\ log[k - 1].stmt = 219
                /\ \E n \in 1..Len(opened) : opened[n].txt = log[k].data

C9_Witness ==
    /\ pc = "done"
    /\ verbose
    /\ passed >= 1
    /\ failures >= 1
    /\ \E k \in 1..Len(log) : log[k].stmt = 221

\* main() is at a line that starts with `#`
AtCommentLine ==
    /\ pc = "tests"
    /\ i <= Len(rlst)
    /\ rlst[i][1] = "#"

(* C10: a line of tests_to_run.txt that starts with `#` is neither         *)
(* classified, counted nor logged: going over it changes none of passed,   *)
(* failed, missing, writes nothing to the log and opens no file, whatever  *)
(* lies on disk under the path it names.                                   *)
C10_CommentLine ==
    [][AtCommentLine =>
          /\ Counters' = Counters
          /\ log' = log
          /\ opened' = opened
          /\ fs' = fs
          /\ pc' = "tests"
          /\ i' = i + 1
      ]_vars

C10_Witness ==
    /\ pc = "tests"
    /\ i = 3
    /\ rlst[2][1] = "#"
    /\ OutDirOf(Tail(rlst[2])) \in DOMAIN fs
    /\ fs[OutDirOf(Tail(rlst[2]))].dir
    /\ Counters = <<1, 0, 0>>
    /\ log = <<>>

----------------------------------------------------------------------------
\* the loop is at a line of the test list that holds only whitespace
AtBlankLine ==
    /\ InTests
    /\ Strip(rlst[i]) = <<>>

(* C11: a blank (whitespace-only) line of the test list is skipped like a  *)
(* comment line: the step that handles it changes none of passed, failed   *)
(* and missing and writes nothing to the log.                              *)
C11_BlankLineSkipped ==
    [][AtBlankLine => /\ Counters' = Counters
                      /\ log' = log]_vars

----------------------------------------------------------------------------
\* main() is at a listed test whose mapping file is there and cannot be opened
MapFileUnreadable ==
    /\ pc = "tests"
    /\ i <= Len(rlst)
    /\ rlst[i][1] # "#"
    /\ OutDirOf(rlst[i]) \in DOMAIN fs'
    /\ fs'[OutDirOf(rlst[i])].dir
    /\ fs'[OutDirOf(rlst[i])].map = "unreadable"

\* main() is at a mapping line whose result file cannot be read
UnreadableSubTest ==
    /\ pc = "maplines"
    /\ j <= Len(mlst)
    /\ Split(mlst[j]) # <<>>
    /\ ~fs[out_dir].res[Split(mlst[j])[1]].readable

\* main() is at a mapping line whose result file is read and lacks the marker
UnmarkedSubTest ==
    /\ ReadableSubTest
    /\ ~Marked(fs[out_dir].res[Split(mlst[j])[1]].txt)

(* C12: every finding about a test or a sub-test (output directory         *)
(* missing, mapping file missing, mapping file unreadable, result file     *)
(* unreadable, marker absent) appends at least one entry to                *)
(* vunit_check.log.                                                        *)
C12_FindingsLogged ==
    [][(\/ OutDirAbsent
        \/ MapFileAbsent
        \/ MapFileUnreadable
        \/ UnreadableSubTest
        \/ UnmarkedSubTest) => /\ Len(log') > Len(log)
                               /\ SubSeq(log', 1, Len(log)) = log
      ]_vars

----------------------------------------------------------------------------
\* what the line at position k of the list adds to <<passed, failures, missing>>
TestSummary(k) ==
    IF k \notin ListedTests THEN <<0, 0, 0>>
    ELSE IF ~TreeOf(k).dir THEN <<0, 0, 1>>
    ELSE << Cardinality({m \in SubTests(k) : ResultOf(k, m).readable /\ Marked(ResultOf(k, m).txt)}),
            Cardinality({m \in SubTests(k) : ResultOf(k, m).readable /\ ~Marked(ResultOf(k, m).txt)}),
            0 >>

RECURSIVE SummaryTo(_)
\* the sum of TestSummary over the positions 1..k, one term for each position
SummaryTo(k) ==
    IF k = 0 THEN <<0, 0, 0>>
    ELSE LET s == SummaryTo(k - 1)
             t == TestSummary(k)
         IN <<s[1] + t[1], s[2] + t[2], s[3] + t[3]>>

\* the entries a step appends to the log name the test at i, or the
\* sub-test at j of the test at i
NamesCurrent(w) ==
    /\ w.stmt = 186 => SubSeq(w.data, 4, Len(w.data)) = PathText(OutDirOf(rlst[i]))
    /\ w.stmt = 203 => SubSeq(w.data, 4, Len(w.data)) = PathText(MFileOf(OutDirOf(rlst[i])))
    /\ w.stmt = 229 => SubSeq(w.data, 4, Len(w.data)) = PathText(DtnOf(OutDirOf(rlst[i]), Split(mlst[j])))
    /\ w.stmt = 219 => w.data = <<">>>>  Test Failed: ">> \o mlst[j] \o <<"\n">>
    /\ w.stmt = 236 => i > Len(rlst)

\* one step of the loops: the position moves on by exactly one line
InOrderStep ==
    pc \in {"tests", "maplines"} =>
    /\ Len(log') >= Len(log)
    /\ SubSeq(log', 1, Len(log)) = log
    /\ \A q \in (Len(log) + 1)..Len(log') : NamesCurrent(log'[q])
    /\ rlst' = rlst
    /\ pc = "tests" =>
          \/ pc' = "tests" /\ i <= Len(rlst) /\ i' = i + 1
          \/ /\ pc' = "maplines"
             /\ i <= Len(rlst)
             /\ i' = i
             /\ j' = 1
             /\ out_dir' = OutDirOf(rlst[i])
             /\ mlst' = fs'[out_dir'].lines
          \/ pc' = "done" /\ i > Len(rlst) /\ i' = i
    /\ pc = "maplines" =>
          /\ mlst' = mlst
          /\ out_dir' = out_dir
          /\ \/ pc' = "maplines" /\ j < Len(mlst) /\ j' = j + 1 /\ i' = i
             \/ pc' = "tests" /\ j = Len(mlst) /\ i' = i + 1
             \/ pc' = "crashed" /\ i' = i /\ j' = j

(* C13: tests are processed strictly in the order of the list and          *)
(* sub-tests strictly in the order of the mapping file, with no sorting    *)
(* and no deduplication: the list worked on is the file's lines as they    *)
(* stand, every step moves on by one line and writes only about the line   *)
(* it is at, and the summary of a finished run is the sum over the         *)
(* positions of the list, so that a test listed k times adds its counts k  *)
(* times.                                                                  *)
C13_ListOrder ==
    /\ [](pc \in {"tests", "maplines", "done", "crashed"} => rlst = listFile.lines)
    /\ [](pc = "done" => Counters = SummaryTo(Len(rlst)))
    /\ [][InOrderStep]_vars

C13_Witness ==
    /\ pc = "done"
    /\ Len(rlst) = 2
    /\ rlst[1] = rlst[2]
    /\ 1 \in ListedTests
    /\ Strip(rlst[1]) # <<>>
    /\ TestSummary(1) = <<2, 0, 0>>
    /\ Counters = <<4, 0, 0>>
    /\ Len(opened) = 6

----------------------------------------------------------------------------
(* check_vunit_regress.py run again *)

Ended == pc \in {"done", "aborted", "crashed"}

\* what a run that has ended leaves behind
Outcome == [summary |-> Counters, exit |-> exitCode, log |-> log,
            logOpened |-> pc # "aborted" \/ lhOpen]

\* lines 242-244 once more: the process has ended and the same command is
\* started again; the disk (the file tree, the list, the log) is as the
\* first run left it, everything main() holds starts afresh
Reinvoke ==
    /\ Ended
    /\ runs < MaxRuns
    /\ runs' = runs + 1
    /\ prev' = Outcome
    /\ pc' = "start"
    /\ lhOpen' = FALSE
    /\ rlst' = <<>>
    /\ i' = 1
    /\ out_dir' = <<>>
    /\ mlst' = <<>>
    /\ j' = 1
    /\ passed' = 0
    /\ failures' = 0
    /\ missing' = 0
    /\ exitCode' = 0
    /\ opened' = <<>>
    /\ UNCHANGED <<verbose, log, fs, listFile, runallVars, metricsVars>>

\* the first of the runs, with the list it will find already on disk
InitTwice ==
    /\ pc = "start"
    /\ verbose \in BOOLEAN
    /\ lhOpen = FALSE
    /\ log = <<>>
    /\ rlst = <<>>
    /\ i = 1
    /\ out_dir = <<>>
    /\ mlst = <<>>
    /\ j = 1
    /\ passed = 0
    /\ failures = 0
    /\ missing = 0
    /\ exitCode = 0
    /\ fs = <<>>
    /\ opened = <<>>
    /\ listFile \in {NoListFile} \cup {ListFileOf(lines) : lines \in SeqsUpTo(TestLineSet, MaxRerunTests)}
    /\ runs = 1
    /\ prev = <<>>
    /\ NoRunall
    /\ NoMetrics

NextTwice ==
    \/ Next
    \/ Reinvoke

SpecTwice == InitTwice /\ [][NextTwice]_vars

(* C14: a run made after another against the same list, output             *)
(* directories, mapping files and result files ends with the same passed,  *)
(* failed and missing, the same exit code and the same content of          *)
(* vunit_check.log as the run before it: the log of the earlier run is     *)
(* neither appended to nor read.                                           *)
C14_SameOutcomeAgain ==
    (Ended /\ runs > 1 /\ prev.logOpened /\ Outcome.logOpened) => Outcome = prev

C14_Witness ==
    /\ pc = "done"
    /\ runs = 2
    /\ prev.logOpened
    /\ Len(prev.log) >= 1
    /\ prev.summary = <<0, 2, 0>>
    /\ Outcome = prev

----------------------------------------------------------------------------
(* runall.py: setup() and execute() *)

MaxMarkers == 2       \* run.py files the glob finds
MaxListed == 2        \* lines of a tests_to_run.txt that is there before runall.py
MaxInvocations == 2   \* invocations of runall.py in succession

\* the run.py files there can be under the tree: in a/, in b/, at the top
MarkerSet == { <<"a", "/", "run.py">>, <<"b", "/", "run.py">>, <<"run.py">> }
\* what glob.glob('**/run.py') returns: each file once, in some order
MarkerLists ==
    { ms \in SeqsUpTo(MarkerSet, MaxMarkers) :
        \A p, q \in 1..Len(ms) : p # q => ms[p] # ms[q] }

\* s.rsplit("/", 1)[0]: what stands before the last "/", all of s without one
RSplitDir(s) ==
    IF \A k \in 1..Len(s) : s[k] # "/" THEN s
    ELSE LET last == CHOOSE k \in 1..Len(s) :
                        /\ s[k] = "/"
                        /\ \A m \in (k + 1)..Len(s) : s[m] # "/"
         IN SubSeq(s, 1, last - 1)

\* lines 245-247: one line for each file found, in the order of the glob
FoundLines(ms) == [k \in 1..Len(ms) |-> RSplitDir(ms[k]) \o <<"\n">>]

RECURSIVE RStripNewline(_)
\* tname.rstrip("\n")
RStripNewline(s) ==
    IF s = <<>> THEN s
    ELSE IF s[Len(s)] = "\n" THEN RStripNewline(SubSeq(s, 1, Len(s) - 1)) ELSE s

\* line 267 without the strip()
VuPath_NoStrip(name) == name \o <<"/", "vunit_out">>

\* line 267
VuPath(name) == Strip(name) \o <<"/", "vunit_out">>

RECURSIVE ComponentsFrom(_, _, _)
ComponentsFrom(s, cur, acc) ==
    IF s = <<>> THEN (IF cur = <<>> THEN acc ELSE Append(acc, cur))
    ELSE IF Head(s) = "/"
         THEN ComponentsFrom(Tail(s), <<>>, IF cur = <<>> THEN acc ELSE Append(acc, cur))
         ELSE ComponentsFrom(Tail(s), Append(cur, Head(s)), acc)

\* the place a path given as text names: from the root when it starts with
\* "/", from the working directory otherwise
PlaceOf(text) ==
    (IF text # <<>> /\ text[1] = "/" THEN << <<"/">> >> ELSE << <<".">> >>)
    \o ComponentsFrom(text, <<>>, <<>>)

InitRunall ==
    /\ pc = "idle"
    /\ verbose = FALSE
    /\ lhOpen = FALSE
    /\ log = <<>>
    /\ rlst = <<>>
    /\ i = 1
    /\ out_dir = <<>>
    /\ mlst = <<>>
    /\ j = 1
    /\ passed = 0
    /\ failures = 0
    /\ missing = 0
    /\ exitCode = 0
    /\ fs = <<>>
    /\ opened = <<>>
    /\ listFile \in {NoListFile} \cup {ListFileOf(lines) : lines \in SeqsUpTo(TestLineSet, MaxListed)}
    /\ runs = 1
    /\ prev = <<>>
    /\ rpc = "setup"
    /\ removed = <<>>
    /\ markers \in MarkerLists
    /\ foundFile = [exists |-> FALSE, lines |-> <<>>]
    /\ setupList = <<>>
    /\ pos = 1
    /\ scanned = FALSE
    /\ class_tlst = <<>>
    /\ dispatched = <<>>
    /\ runLog = <<>>
    /\ status = <<>>
    /\ NoMetrics

\* lines 240-261: there is no tests_to_run.txt; the glob is run, what it
\* finds is written to tests_to_run.txt, and with nothing found do_exit(1)
Scan ==
    /\ rpc = "setup"
    /\ ~listFile.exists
    /\ scanned' = TRUE
    /\ listFile' = ListFileOf(FoundLines(markers))
    /\ IF markers = <<>>
       THEN /\ status' = Append(status, [exit |-> "1", scanned |-> TRUE])
            /\ rpc' = "exited"
            /\ UNCHANGED setupList
       ELSE /\ setupList' = FoundLines(markers)
            /\ rpc' = "remove"
            /\ UNCHANGED status
    /\ pos' = 1
    /\ class_tlst' = <<>>
    /\ UNCHANGED <<removed, markers, foundFile, dispatched, runLog>>
    /\ UNCHANGED <<aggVars, rerunVars, metricsVars>>

\* lines 240, 256-261: tests_to_run.txt is there and is read
ReadCurated ==
    /\ rpc = "setup"
    /\ listFile.exists
    /\ setupList' = listFile.lines
    /\ pos' = 1
    /\ class_tlst' = <<>>
    /\ rpc' = "remove"
    /\ UNCHANGED <<removed, markers, foundFile, scanned, dispatched, runLog, status>>
    /\ UNCHANGED <<aggVars, listFile, rerunVars, metricsVars>>

InNames == rpc = "remove" /\ pos <= Len(setupList)

\* lines 264-265
SkipCommentName ==
    /\ InNames
    /\ IsComment(setupList[pos])
    /\ pos' = pos + 1
    /\ UNCHANGED <<rpc, removed, markers, foundFile, setupList, scanned, class_tlst,
                   dispatched, runLog, status>>
    /\ UNCHANGED <<aggVars, listFile, rerunVars, metricsVars>>

\* lines 267-274: what is at vupath is removed, and the test joins class_tlst
RemovePrevious ==
    /\ InNames
    /\ ~IsComment(setupList[pos])
    /\ LET vupath == VuPath(setupList[pos])
           place == PlaceOf(vupath)
       IN \E tree \in TreeAt(place) :
            /\ removed' = IF tree.dir THEN Append(removed, vupath) ELSE removed
            /\ fs' = [q \in DOMAIN fs \cup {place} |-> IF q = place THEN NoDir ELSE fs[q]]
    /\ class_tlst' = Append(class_tlst, [testName |-> RStripNewline(setupList[pos]),
                                         indx |-> Len(class_tlst)])
    /\ pos' = pos + 1
    /\ UNCHANGED <<rpc, markers, foundFile, setupList, scanned, dispatched, runLog, status>>
    /\ UNCHANGED <<pc, verbose, lhOpen, log, rlst, i, out_dir, mlst, j,
                   passed, failures, missing, exitCode, opened>>
    /\ UNCHANGED <<listFile, rerunVars, metricsVars>>

\* lines 276, 324-327, 203-206: setup() returns and execute() opens tests_run.log
SetupReturns ==
    /\ rpc = "remove"
    /\ pos > Len(setupList)
    /\ rpc' = "execute"
    /\ pos' = 1
    /\ runLog' = << W(204, <<"-------------------------------------------", "\n">>),
                    W(205, <<"Test run starting", "\n">>),
                    W(206, <<"-------------------------------------------", "\n">>) >>
    /\ UNCHANGED <<removed, markers, foundFile, setupList, scanned, class_tlst,
                   dispatched, status>>
    /\ UNCHANGED <<aggVars, listFile, rerunVars, metricsVars>>

\* lines 209-210, 173-193: the test is sent to the farm
Dispatch ==
    /\ rpc = "execute"
    /\ pos <= Len(class_tlst)
    /\ LET test == class_tlst[pos] IN
         /\ runLog' = runLog \o
              << W(176, <<"Sending: '">> \o test.testName \o <<"' to mux-farm", "\n">>),
                 W(178, <<"  Command is '", "mux-farm bash -c 'python3 ./run.py'", "'", "\n">>),
                 W(182, <<"  Running test in ">> \o test.testName \o <<"\n">>),
                 W(189, <<"  Process ID is ", "pid", "\n">>) >>
         /\ dispatched' = Append(dispatched, test.testName)
    /\ pos' = pos + 1
    /\ UNCHANGED <<rpc, status, removed, markers, foundFile, setupList, scanned, class_tlst>>
    /\ UNCHANGED <<aggVars, listFile, rerunVars, metricsVars>>

\* lines 212-225, 334: every test is sent; the monitor returns, the log is
\* ended and closed, do_exit(programStatus)
ExecuteEnds ==
    /\ rpc = "execute"
    /\ pos > Len(class_tlst)
    /\ runLog' = runLog \o << W(217, <<"monitor", "\n">>),
                              W(221, <<"-------------------------------------------", "\n">>),
                              W(222, <<"Test run completed", "\n">>),
                              W(223, <<"-------------------------------------------", "\n">>) >>
    /\ status' = Append(status, [exit |-> "programStatus", scanned |-> scanned])
    /\ rpc' = "finished"
    /\ UNCHANGED <<removed, markers, foundFile, setupList, pos, scanned, class_tlst, dispatched>>
    /\ UNCHANGED <<aggVars, listFile, rerunVars, metricsVars>>

\* lines 336-337 once more: runall.py is started again over the tree as the
\* invocation before left it
RunAgain ==
    /\ rpc \in {"exited", "finished"}
    /\ Len(status) < MaxInvocations
    /\ rpc' = "setup"
    /\ setupList' = <<>>
    /\ pos' = 1
    /\ scanned' = FALSE
    /\ class_tlst' = <<>>
    /\ UNCHANGED <<removed, markers, foundFile, dispatched, runLog, status>>
    /\ UNCHANGED <<aggVars, listFile, rerunVars, metricsVars>>

\* check_vunit_regress.py is started after a runall.py whose setup() has
\* returned; in the model no job ever writes its output
StartCheck ==
    /\ pc = "idle"
    /\ rpc = "finished"
    /\ pc' = "start"
    /\ verbose' \in BOOLEAN
    /\ UNCHANGED <<lhOpen, log, rlst, i, out_dir, mlst, j,
                   passed, failures, missing, exitCode, fs, opened>>
    /\ UNCHANGED <<listFile, rerunVars, runallVars, metricsVars>>

NextRunall ==
    \/ Scan
    \/ ReadCurated
    \/ SkipCommentName
    \/ RemovePrevious
    \/ SetupReturns
    \/ Dispatch
    \/ ExecuteEnds
    \/ RunAgain

SpecRunall == InitRunall /\ [][NextRunall]_vars

\* one invocation of runall.py, and check_vunit_regress.py after it
NextSetupCheck ==
    \/ Scan
    \/ ReadCurated
    \/ SkipCommentName
    \/ RemovePrevious
    \/ SetupReturns
    \/ Dispatch
    \/ ExecuteEnds
    \/ StartCheck
    \/ Next

SpecSetupCheck == InitRunall /\ [][NextSetupCheck]_vars

----------------------------------------------------------------------------
\* the first invocation of runall.py found no tests_to_run.txt, and the
\* tree holds no run.py
StartedBare ==
    /\ markers = <<>>
    /\ IF status = <<>> THEN ~listFile.exists ELSE status[1].exit = "1"

(* C15: started over a tree with no tests_to_run.txt and no run.py, every  *)
(* invocation of runall.py, however many follow one another, scans the     *)
(* disk again and ends with status 1 before any test is dispatched and     *)
(* before anything is written to tests_run.log.                            *)
C15_FailsFastEveryTime ==
    StartedBare =>
        /\ \A k \in 1..Len(status) : status[k] = [exit |-> "1", scanned |-> TRUE]
        /\ rpc \in {"setup", "exited"}
        /\ dispatched = <<>>
        /\ runLog = <<>>

(* C16: when setup() finds no tests_to_run.txt, the directories of the     *)
(* run.py files found are written, one per line in the order found, to     *)
(* test_found_list.txt, and tests_to_run.txt is not created.               *)
C16_FoundListWritten ==
    scanned =>
        /\ foundFile = [exists |-> TRUE, lines |-> FoundLines(markers)]
        /\ ~listFile.exists

\* the lines of a list that name a test: neither a comment nor blank
ProperLines(lines) ==
    {k \in 1..Len(lines) : ~IsComment(lines[k]) /\ Strip(lines[k]) # <<>>}

(* C17: once setup() has returned, no test named by a line of              *)
(* tests_to_run.txt that is neither a comment nor blank has a vunit_out    *)
(* left, the path setup() removed being the one check_vunit_regress.py     *)
(* looks at; a check made then, with no job output written yet, counts     *)
(* each of these tests as missing and none as passed.                      *)
C17_NoStaleResults ==
    /\ rpc \in {"execute", "finished"} =>
          \A k \in ProperLines(listFile.lines) :
             LET dir == OutDirOf(listFile.lines[k])
             IN /\ dir = PlaceOf(VuPath(listFile.lines[k]))
                /\ dir \in DOMAIN fs
                /\ ~fs[dir].dir
    /\ pc = "done" =>
          /\ rlst = listFile.lines
          /\ \A k \in ProperLines(rlst) : TestSummary(k) = <<0, 0, 1>>
          /\ missing >= Cardinality(ProperLines(rlst))
          /\ ListedTests = ProperLines(rlst) =>
                Counters = <<0, 0, Cardinality(ProperLines(rlst))>>

C17_Witness ==
    /\ pc = "done"
    /\ rlst = << <<"a", "\n">>, <<"b", "\n">> >>
    /\ removed = << <<"a", "/", "vunit_out">>, <<"b", "/", "vunit_out">> >>
    /\ Counters = <<0, 0, 2>>
    /\ exitCode = 2

----------------------------------------------------------------------------
(* vunit/sim_if/metrics.py: MetricsInterface.compile_verilog_file_command *)

MaxCommands == 3   \* commands asked for in all

\* self._output_path, relative to the working directory
OutputPath == <<"out">>

LibL == [name |-> <<"L">>, directory |-> <<"out", "/", "L">>]
LibT == [name |-> <<"T">>, directory |-> <<"out", "/", "T">>]

\* the Verilog source files of the project: two of library L, one of library T
SourceFiles ==
    { [name |-> <<"src", "/", "p.sv">>, library |-> LibL,
       include_dirs |-> << <<"inc">> >>, flags |-> << <<"-sv">> >>],
      [name |-> <<"src", "/", "q.sv">>, library |-> LibL,
       include_dirs |-> <<>>, flags |-> <<>>],
      [name |-> <<"src", "/", "r.sv">>, library |-> LibT,
       include_dirs |-> << <<"inc">> >>, flags |-> <<>>] }

RECURSIVE RStripChars(_, _)
\* s.rstrip(chars)
RStripChars(s, chars) ==
    IF s = <<>> THEN s
    ELSE IF \E k \in 1..Len(chars) : chars[k] = s[Len(s)]
         THEN RStripChars(SubSeq(s, 1, Len(s) - 1), chars)
         ELSE s

\* Path(a) / b
PathJoin(a, b) == RStripChars(a, <<"/">>) \o <<"/">> \o b

RECURSIVE JoinWith(_, _)
\* sep.join(parts)
JoinWith(sep, parts) ==
    IF parts = <<>> THEN <<>>
    ELSE IF Len(parts) = 1 THEN parts[1]
    ELSE parts[1] \o <<sep>> \o JoinWith(sep, Tail(parts))

\* the argument list as dvlcom reads it back from a file: one per line
ArgsIn(content) == LinesFrom(content \o <<"\n">>, <<>>, <<>>)

\* lines 126-133
FormatCmd(cmd, args) ==
    IF in_cloud THEN << <<"mdc">>, cmd, <<"-a">>, JoinWith(" ", args) >>
    ELSE <<cmd>> \o args

\* lines 249-269: the arguments for one source file
ArgsOf(f) ==
    << <<"-work">>,
       PathJoin(RStripChars(f.library.directory, f.library.name), <<"dsim_vunit_work">>),
       <<"-lib">>,
       f.library.name >>
    \o f.flags
    \o << <<"-l", " ">> \o PathJoin(OutputPath,
                              <<"metrics_compile_verilog_file_">> \o f.library.name \o <<".log">>) >>
    \o [k \in 1..Len(f.include_dirs) |-> <<"+incdir+">> \o f.include_dirs[k]]
    \o << f.name >>

\* lines 270-273
ArgsFileOf(f) ==
    PathJoin(OutputPath, <<"metrics_compile_verilog_file_">> \o f.library.name \o <<".args">>)

InitCompile ==
    /\ pc = "idle"
    /\ verbose = FALSE
    /\ lhOpen = FALSE
    /\ log = <<>>
    /\ rlst = <<>>
    /\ i = 1
    /\ out_dir = <<>>
    /\ mlst = <<>>
    /\ j = 1
    /\ passed = 0
    /\ failures = 0
    /\ missing = 0
    /\ exitCode = 0
    /\ fs = <<>>
    /\ opened = <<>>
    /\ listFile = [known |-> FALSE, exists |-> FALSE, lines |-> <<>>]
    /\ runs = 1
    /\ prev = <<>>
    /\ NoRunall
    /\ in_cloud \in BOOLEAN
    /\ argsFiles = <<>>
    /\ returned = <<>>
    /\ compiled = <<>>

\* lines 245-276: the args file is written and the command naming it returned
CompileVerilogFileCommand ==
    /\ Len(returned) + Len(compiled) < MaxCommands
    /\ \E f \in SourceFiles :
         LET argsfile == ArgsFileOf(f) IN
         /\ argsFiles' = [q \in DOMAIN argsFiles \cup {argsfile} |->
                            IF q = argsfile THEN JoinWith("\n", ArgsOf(f)) ELSE argsFiles[q]]
         /\ returned' = Append(returned, [asked |-> f.name,
                                          cmd |-> FormatCmd(<<"dvlcom">>, << <<"-f">>, argsfile >>)])
    /\ UNCHANGED <<in_cloud, compiled>>
    /\ UNCHANGED <<aggVars, listFile, rerunVars, runallVars>>

\* the args file a command names
ArgsFileIn(cmd) ==
    IF cmd[1] = <<"mdc">> THEN SubSeq(cmd[4], 3, Len(cmd[4])) ELSE cmd[3]

\* one of the commands returned is executed: dvlcom reads its arguments from
\* the args file as it is now
ExecuteCommand ==
    /\ \E k \in 1..Len(returned) :
         /\ compiled' = Append(compiled, [asked |-> returned[k].asked,
                                          args |-> ArgsIn(argsFiles[ArgsFileIn(returned[k].cmd)])])
         /\ returned' = [m \in 1..(Len(returned) - 1) |->
                           IF m < k THEN returned[m] ELSE returned[m + 1]]
    /\ UNCHANGED <<in_cloud, argsFiles>>
    /\ UNCHANGED <<aggVars, listFile, rerunVars, runallVars>>

NextCompile ==
    \/ CompileVerilogFileCommand
    \/ ExecuteCommand

SpecCompile == InitCompile /\ [][NextCompile]_vars

\* the source file of a name
FileNamed(name) == CHOOSE f \in SourceFiles : f.name = name

(* C18: a command returned by compile_verilog_file_command(f) compiles f   *)
(* whenever it is executed: the args file it names then holds f's own      *)
(* path, include directories and flags, whatever calls for other source    *)
(* files were made in between.                                             *)
C18_CommandCompilesItsFile ==
    \A k \in 1..Len(compiled) :
       compiled[k].args = ArgsOf(FileNamed(compiled[k].asked))
====
